---- MODULE Spec2Model ----
(***************************************************************************)
(* PulseLab: the error-budget engine (physics.ts), the tool dispatcher     *)
(* executeTool and the REST handler (index.ts).                            *)
(*                                                                         *)
(* JavaScript numbers are IEEE-754 binary floating-point values.  They are *)
(* modelled as binary floating-point values with the exponent range of a   *)
(* double (emax = 1023) and a significand of Prec bits, rounded to nearest,*)
(* ties to even, after every arithmetic operation, with gradual underflow, *)
(* overflow to Infinity, and NaN.  The sign of zero is not modelled.       *)
(***************************************************************************)
EXTENDS Integers, Sequences, FiniteSets, TLC

\* significand width of the modelled numbers (53 in a double)
Prec == 8

\* largest binary exponent of a finite double
Emax == 1023

\* exponent of the unit in the last place of the largest finite numbers
EmaxQ == Emax - (Prec - 1)
\* exponent of the smallest subnormal: 2^EminQ
EminQ == (1 - Emax) - (Prec - 1)

Max(a, b) == IF a >= b THEN a ELSE b
Min(a, b) == IF a <= b THEN a ELSE b
AbsInt(n) == IF n < 0 THEN -n ELSE n
SignInt(n) == IF n < 0 THEN -1 ELSE 1

RECURSIVE BitLen(_)
BitLen(n) == IF n = 0 THEN 0 ELSE 1 + BitLen(n \div 2)

---------------------------------------------------------------------------
\* Number values: a finite number m * 2^e (m normalised to Prec bits unless
\* subnormal), NaN, +/-Infinity, and the JavaScript value undefined.

Num(m, e) == [k |-> "num", m |-> m, e |-> e]
Zero == Num(0, EminQ)
NaN == [k |-> "nan", m |-> 0, e |-> 0]
Inf(s) == [k |-> "inf", m |-> s, e |-> 0]
Undefined == [k |-> "undef", m |-> 0, e |-> 0]

\* ToNumber(undefined) is NaN: every arithmetic operator and comparison
\* converts its operands first
IsNaN(x) == x.k \in {"nan", "undef"}
IsInf(x) == x.k = "inf"
IsFinite(x) == x.k = "num"
IsZero(x) == x.k = "num" /\ x.m = 0
SignOf(x) == IF x.m < 0 THEN -1 ELSE 1

\* s * m * 2^e, with m already rounded to Prec bits
Pack(s, m, e) ==
  IF m = 0 THEN Zero ELSE IF e > EmaxQ THEN Inf(s) ELSE Num(s * m, e)

\* the rounded significand q may have reached 2^Prec
Renormalise(s, q, e) ==
  IF q = 2 ^ Prec THEN Pack(s, 2 ^ (Prec - 1), e + 1) ELSE Pack(s, q, e)

\* round to nearest, ties to even: q units and a remainder r out of 2 * half
RoundsUp(q, r, half, st) == r > half \/ (r = half /\ (st \/ q % 2 = 1))

\* drop the low `drop` bits of n, rounding
DropBits(s, n, e, st, drop) ==
  Renormalise(s,
              (n \div (2 ^ drop))
                + (IF RoundsUp(n \div (2 ^ drop), n % (2 ^ drop), 2 ^ (drop - 1), st)
                   THEN 1 ELSE 0),
              e + drop)

\* n has `bits` bits; `drop` of them do not fit the significand or lie below
\* the smallest subnormal
RoundAt(s, n, e, st, bits, drop) ==
  IF drop <= 0
  THEN Pack(s, n * (2 ^ Min(Prec - bits, e - EminQ)), e - Min(Prec - bits, e - EminQ))
  ELSE IF drop > bits THEN Zero
  ELSE DropBits(s, n, e, st, drop)

\* round the exact value s * n * 2^e (n a natural; st: the exact value lies
\* strictly between n and n+1 units) to the nearest number, ties to even
Round(s, n, e, st) ==
  IF n = 0 THEN Zero
  ELSE RoundAt(s, n, e, st, BitLen(n), Max(BitLen(n) - Prec, EminQ - e))

\* s * (n / d) * 2^e, the quotient taken with Prec + 2 bits at least
Quotient(s, n, d, e, K) ==
  Round(s, (n * (2 ^ K)) \div d, e - K, (n * (2 ^ K)) % d # 0)

QuotientShift(n, d) == Max(0, Prec + 2 + BitLen(d) - BitLen(n))

\* the number nearest to the rational n / d (a decimal literal of the source)
Lit(n, d) == Quotient(SignInt(n), AbsInt(n), d, 0, QuotientShift(AbsInt(n), d))

\* a * b
Mul(a, b) ==
  IF IsNaN(a) \/ IsNaN(b) THEN NaN
  ELSE IF IsInf(a) \/ IsInf(b)
       THEN IF IsZero(a) \/ IsZero(b) THEN NaN
            ELSE Inf(SignOf(a) * SignOf(b))
  ELSE Round(SignOf(a) * SignOf(b), AbsInt(a.m) * AbsInt(b.m), a.e + b.e, FALSE)

\* a / b
Div(a, b) ==
  IF IsNaN(a) \/ IsNaN(b) THEN NaN
  ELSE IF IsInf(a) THEN (IF IsInf(b) THEN NaN ELSE Inf(SignOf(a) * SignOf(b)))
  ELSE IF IsInf(b) THEN Zero
  ELSE IF IsZero(b) THEN (IF IsZero(a) THEN NaN ELSE Inf(SignOf(a)))
  ELSE IF IsZero(a) THEN Zero
  ELSE Quotient(SignOf(a) * SignOf(b), AbsInt(a.m), AbsInt(b.m), a.e - b.e,
                QuotientShift(AbsInt(a.m), AbsInt(b.m)))

\* -a
Neg(a) ==
  IF IsNaN(a) THEN NaN
  ELSE IF IsInf(a) THEN Inf(-a.m)
  ELSE Num(-a.m, a.e)

\* the exact integer sum n, in units of 2^e
AddNear(n, e) == Round(SignInt(n), AbsInt(n), e, FALSE)

\* lo is below a quarter unit of hi: it only decides the rounding
AddFar(hi, lo) ==
  Round(SignOf(hi),
        AbsInt(hi.m) * 4 - (IF SignOf(hi) = SignOf(lo) THEN 0 ELSE 1),
        hi.e - 2, TRUE)

\* hi + lo for finite non-zero operands with hi.e >= lo.e
AddOrdered(hi, lo) ==
  IF hi.e - lo.e > Prec + 2 THEN AddFar(hi, lo)
  ELSE AddNear(hi.m * (2 ^ (hi.e - lo.e)) + lo.m, lo.e)

\* a + b
Add(a, b) ==
  IF IsNaN(a) \/ IsNaN(b) THEN NaN
  ELSE IF IsInf(a) THEN (IF IsInf(b) /\ b.m # a.m THEN NaN ELSE a)
  ELSE IF IsInf(b) THEN b
  ELSE IF IsZero(a) THEN b
  ELSE IF IsZero(b) THEN a
  ELSE AddOrdered(IF a.e >= b.e THEN a ELSE b, IF a.e >= b.e THEN b ELSE a)

\* a - b
Sub(a, b) == Add(a, Neg(b))

\* a < b  (false when either operand is NaN or undefined)
Lt(a, b) ==
  IF IsNaN(a) \/ IsNaN(b) THEN FALSE
  ELSE IF IsInf(a) THEN a.m < 0 /\ ~(IsInf(b) /\ b.m < 0)
  ELSE IF IsInf(b) THEN b.m > 0
  ELSE IF a.m < 0 /\ b.m >= 0 THEN TRUE
  ELSE IF a.m >= 0 /\ b.m < 0 THEN FALSE
  ELSE IF a.m >= 0 THEN a.e < b.e \/ (a.e = b.e /\ a.m < b.m)
  ELSE a.e > b.e \/ (a.e = b.e /\ a.m < b.m)

\* a > b, a <= b, a >= b
Gt(a, b) == Lt(b, a)
Le(a, b) == ~IsNaN(a) /\ ~IsNaN(b) /\ ~Lt(b, a)
Ge(a, b) == Le(b, a)

\* Math.max, Math.min, Math.abs
MathMax(a, b) == IF IsNaN(a) \/ IsNaN(b) THEN NaN ELSE IF Lt(a, b) THEN b ELSE a
MathMin(a, b) == IF IsNaN(a) \/ IsNaN(b) THEN NaN ELSE IF Lt(b, a) THEN b ELSE a
MathAbs(a) ==
  IF IsNaN(a) THEN NaN
  ELSE IF IsInf(a) THEN Inf(1)
  ELSE Num(AbsInt(a.m), a.e)

\* x ** 2 and x ** 4
Pow2(x) == Mul(x, x)
Pow4(x) == Pow2(Pow2(x))

\* Math.PI
MathPI == Lit(355, 113)

---------------------------------------------------------------------------
\* physics.ts

\* number literals of physics.ts
N0 == Zero
N1 == Lit(1, 1)
N2 == Lit(2, 1)
N15 == Lit(15, 1)
N20 == Lit(20, 1)
N200 == Lit(200, 1)
N1000 == Lit(1000, 1)
Half == Lit(1, 2)

HardwareParams(alpha_mhz, t1_us, t2_us, gate_time_ns) ==
  [alpha_mhz |-> alpha_mhz, t1_us |-> t1_us, t2_us |-> t2_us,
   gate_time_ns |-> gate_time_ns]

\* computeDecoherenceFloor without Math.max(0, eps_t2)
computeDecoherenceFloorUnclamped(gate_time_ns, t1_us, t2_us) ==
  LET t_ns == gate_time_ns
      t1_ns == Mul(t1_us, N1000)
      t2_ns == Mul(t2_us, N1000)
      eps_t1 == Div(t_ns, Mul(N2, t1_ns))
      eps_t2 == Sub(Div(t_ns, t2_ns), Div(t_ns, Mul(N2, t1_ns)))
  IN [t1_contribution |-> eps_t1,
      t2_contribution |-> eps_t2,
      total |-> Add(eps_t1, eps_t2)]

computeDecoherenceFloor(gate_time_ns, t1_us, t2_us) ==
  LET t_ns == gate_time_ns
      t1_ns == Mul(t1_us, N1000)
      t2_ns == Mul(t2_us, N1000)
      eps_t1 == Div(t_ns, Mul(N2, t1_ns))
      eps_t2 == Sub(Div(t_ns, t2_ns), Div(t_ns, Mul(N2, t1_ns)))
      eps_phi == MathMax(N0, eps_t2)
  IN [t1_contribution |-> eps_t1,
      t2_contribution |-> eps_phi,
      total |-> Add(eps_t1, eps_phi)]

\* estimateDragCoherentError with the gate-time ratio squared, as in the
\* Gaussian model, instead of raised to the fourth power
estimateDragCoherentErrorSquared(gate_time_ns, alpha_mhz) ==
  Mul(Lit(49, 100000),
      Mul(Pow2(Div(N20, gate_time_ns)), Pow2(Div(N200, MathAbs(alpha_mhz)))))

estimateDragCoherentError(gate_time_ns, alpha_mhz) ==
  LET abs_alpha == MathAbs(alpha_mhz)
      ref_error == Lit(49, 100000)
      ref_gate == N20
      ref_alpha == N200
      ratio == Mul(Pow4(Div(ref_gate, gate_time_ns)), Pow2(Div(ref_alpha, abs_alpha)))
  IN Mul(ref_error, ratio)

estimateGaussianCoherentError(gate_time_ns, alpha_mhz) ==
  LET abs_alpha == MathAbs(alpha_mhz)
      ref_error == Lit(28, 1000)
      ref_gate == N20
      ref_alpha == N200
      ratio == Mul(Pow2(Div(ref_gate, gate_time_ns)), Pow2(Div(ref_alpha, abs_alpha)))
  IN Mul(ref_error, ratio)

computeDragBeta(alpha_mhz) ==
  LET alpha_rad_per_ns == Div(Mul(Mul(alpha_mhz, N2), MathPI), N1000)
  IN Div(Neg(N1), Mul(N2, alpha_rad_per_ns))

\* classifyRegime with the DRAG-sufficient rule tried before the short-gate rule
classifyRegimeDragFirst(gate_time_ns, drag_coherent, floor) ==
  IF Lt(drag_coherent, Mul(floor.total, Half)) THEN "drag_sufficient"
  ELSE IF Lt(gate_time_ns, N15) THEN "short_gate_regime"
  ELSE "grape_needed"

\* computeErrorBudget: the regime, by the first rule that matches
classifyRegime(gate_time_ns, drag_coherent, floor) ==
  IF Lt(gate_time_ns, N15) THEN "short_gate_regime"
  ELSE IF Lt(drag_coherent, Mul(floor.total, Half)) THEN "drag_sufficient"
  ELSE "grape_needed"

\* computeErrorBudget: the recommendation text is a template chosen with the
\* regime, with numbers substituted into it; it is modelled by the template
\* and the numbers it formats, in the order they appear
recommendationText(regime, params, drag_coherent, floor, drag_total, grape_total) ==
  IF regime = "short_gate_regime"
  THEN [template |-> regime, values |-> <<params.gate_time_ns>>]
  ELSE IF regime = "drag_sufficient"
  THEN [template |-> regime,
        values |-> <<drag_coherent, floor.total, Div(drag_total, grape_total),
                     params.t2_us, floor.t2_contribution>>]
  ELSE [template |-> regime, values |-> <<drag_coherent, floor.total>>]

\* dragTotal without the decoherence floor added
dragTotalCoherentOnly(drag_coherent, floor) == drag_coherent

\* computeErrorBudget: DRAG total = coherent + decoherence
dragTotal(drag_coherent, floor) == Add(drag_coherent, floor.total)

\* budgetDragBeta scaled by the peak Rabi frequency pi / gate_time_ns
budgetDragBetaRabi(params) ==
  Mul(computeDragBeta(params.alpha_mhz), Div(MathPI, params.gate_time_ns))

\* computeErrorBudget: beta = computeDragBeta(alpha_mhz)
budgetDragBeta(params) == computeDragBeta(params.alpha_mhz)

computeErrorBudget(params) ==
  LET alpha_mhz == params.alpha_mhz
      t1_us == params.t1_us
      t2_us == params.t2_us
      gate_time_ns == params.gate_time_ns
      floor == computeDecoherenceFloor(gate_time_ns, t1_us, t2_us)
      drag_coherent == estimateDragCoherentError(gate_time_ns, alpha_mhz)
      gaussian_coherent == estimateGaussianCoherentError(gate_time_ns, alpha_mhz)
      grape_total == floor.total
      drag_total == dragTotal(drag_coherent, floor)
      gaussian_total == Add(gaussian_coherent, floor.total)
      t2_over_t == Div(Mul(t2_us, N1000), gate_time_ns)
      beta == budgetDragBeta(params)
      regime == classifyRegime(gate_time_ns, drag_coherent, floor)
  IN [params |-> params,
      decoherence_floor |-> floor,
      estimated_infidelity |->
        [gaussian |-> gaussian_total, drag |-> drag_total, grape |-> grape_total],
      regime |-> regime,
      recommendation |->
        recommendationText(regime, params, drag_coherent, floor, drag_total, grape_total),
      t2_over_t_ratio |-> t2_over_t,
      drag_beta |-> beta]

\* one RobustnessEstimate
RobustnessEstimate(method, det_ref, det_coef, amp_ref, amp_coef, gate_factor, robust) ==
  [method |-> method,
   detuning_min_fidelity |-> Mul(det_ref, Sub(N1, Mul(det_coef, gate_factor))),
   amplitude_min_fidelity |-> Mul(amp_ref, Sub(N1, Mul(amp_coef, gate_factor))),
   detuning_robust |-> robust.detuning,
   amplitude_robust |-> robust.amplitude]

\* estimateRobustness with gate_factor = 20 / t, not capped at 1
estimateRobustnessUncapped(params) ==
  LET gate_factor == Div(N20, params.gate_time_ns)
  IN << RobustnessEstimate("Gaussian", Lit(937, 1000), Lit(3, 100), Lit(965, 1000),
                           Lit(2, 100), gate_factor,
                           [detuning |-> FALSE, amplitude |-> FALSE]),
        RobustnessEstimate("DRAG", Lit(990, 1000), Lit(1, 100), Lit(990, 1000),
                           Lit(1, 100), gate_factor,
                           [detuning |-> TRUE, amplitude |-> TRUE]),
        RobustnessEstimate("GRAPE", Lit(931, 1000), Lit(4, 100), Lit(994, 1000),
                           Lit(5, 1000), gate_factor,
                           [detuning |-> FALSE, amplitude |-> TRUE]) >>

\* estimateRobustness with each flag derived from the fidelity it stands
\* beside, as fidelity >= 0.98
estimateRobustnessThresholdFlags(params) ==
  LET gate_factor == MathMin(N1, Div(N20, params.gate_time_ns))
      flagged(e) == [e EXCEPT
                       !.detuning_robust = Ge(e.detuning_min_fidelity, Lit(98, 100)),
                       !.amplitude_robust = Ge(e.amplitude_min_fidelity, Lit(98, 100))]
  IN << flagged(RobustnessEstimate("Gaussian", Lit(937, 1000), Lit(3, 100),
                                   Lit(965, 1000), Lit(2, 100), gate_factor,
                                   [detuning |-> FALSE, amplitude |-> FALSE])),
        flagged(RobustnessEstimate("DRAG", Lit(990, 1000), Lit(1, 100),
                                   Lit(990, 1000), Lit(1, 100), gate_factor,
                                   [detuning |-> TRUE, amplitude |-> TRUE])),
        flagged(RobustnessEstimate("GRAPE", Lit(931, 1000), Lit(4, 100),
                                   Lit(994, 1000), Lit(5, 1000), gate_factor,
                                   [detuning |-> FALSE, amplitude |-> TRUE])) >>

estimateRobustness(params) ==
  LET t == params.gate_time_ns
      gate_factor == MathMin(N1, Div(N20, t))
  IN << RobustnessEstimate("Gaussian", Lit(937, 1000), Lit(3, 100), Lit(965, 1000),
                           Lit(2, 100), gate_factor,
                           [detuning |-> FALSE, amplitude |-> FALSE]),
        RobustnessEstimate("DRAG", Lit(990, 1000), Lit(1, 100), Lit(990, 1000),
                           Lit(1, 100), gate_factor,
                           [detuning |-> TRUE, amplitude |-> TRUE]),
        RobustnessEstimate("GRAPE", Lit(931, 1000), Lit(4, 100), Lit(994, 1000),
                           Lit(5, 1000), gate_factor,
                           [detuning |-> FALSE, amplitude |-> TRUE]) >>

---------------------------------------------------------------------------
\* Exact values of the robustness fidelities.  The decimal constants of
\* estimateRobustness (0.937, 0.03, ...) are not numbers of Prec bits, and a
\* fidelity can lie within 1e-4 of a value it is compared with, so where such
\* a comparison is to be decided the same expressions are evaluated on
\* rationals n / d (d > 0, in lowest terms).  A double differs from the exact
\* value by less than 2^-50 of it.

RECURSIVE GCD(_, _)
GCD(a, b) == IF b = 0 THEN a ELSE GCD(b, a % b)

RatReduce(n, d, g) == [n |-> n \div g, d |-> d \div g]
Rat(n, d) == RatReduce(n, d, GCD(AbsInt(n), d))
RatMul(a, b) == Rat(a.n * b.n, a.d * b.d)
RatDiv(a, b) == Rat(a.n * b.d, a.d * b.n)
RatSub(a, b) == Rat(a.n * b.d - b.n * a.d, a.d * b.d)
RatAdd(a, b) == Rat(a.n * b.d + b.n * a.d, a.d * b.d)

\* n1 / d1 < n2 / d2 for non-negative fractions, by their continued fractions
\* (no product is formed)
RECURSIVE FracLt(_, _, _, _)
FracLt(n1, d1, n2, d2) ==
  IF n1 \div d1 # n2 \div d2 THEN n1 \div d1 < n2 \div d2
  ELSE IF n2 % d2 = 0 THEN FALSE
  ELSE IF n1 % d1 = 0 THEN TRUE
  ELSE FracLt(d2, n2 % d2, d1, n1 % d1)

RatLt(a, b) == FracLt(a.n, a.d, b.n, b.d)
RatLe(a, b) == ~RatLt(b, a)
RatMin(a, b) == IF RatLt(b, a) THEN b ELSE a

\* the exact value of a finite number x = m * 2^e
ToRat(x) == IF x.e >= 0 THEN Rat(x.m * (2 ^ x.e), 1) ELSE Rat(x.m, 2 ^ (0 - x.e))

\* one RobustnessEstimate, exactly
RobustnessEstimateExact(method, det_ref, det_coef, amp_ref, amp_coef, gate_factor, robust) ==
  [method |-> method,
   detuning_min_fidelity |->
     RatMul(det_ref, RatSub(Rat(1, 1), RatMul(det_coef, gate_factor))),
   amplitude_min_fidelity |->
     RatMul(amp_ref, RatSub(Rat(1, 1), RatMul(amp_coef, gate_factor))),
   detuning_robust |-> robust.detuning,
   amplitude_robust |-> robust.amplitude]

\* estimateRobustnessExact with gate_factor = 20 / t, not capped at 1
estimateRobustnessExactUncapped(t) ==
  LET gate_factor == RatDiv(Rat(20, 1), t)
  IN << RobustnessEstimateExact("Gaussian", Rat(937, 1000), Rat(3, 100), Rat(965, 1000),
                                Rat(2, 100), gate_factor,
                                [detuning |-> FALSE, amplitude |-> FALSE]),
        RobustnessEstimateExact("DRAG", Rat(990, 1000), Rat(1, 100), Rat(990, 1000),
                                Rat(1, 100), gate_factor,
                                [detuning |-> TRUE, amplitude |-> TRUE]),
        RobustnessEstimateExact("GRAPE", Rat(931, 1000), Rat(4, 100), Rat(994, 1000),
                                Rat(5, 1000), gate_factor,
                                [detuning |-> FALSE, amplitude |-> TRUE]) >>

\* estimateRobustness for the gate time t, exactly
estimateRobustnessExact(t) ==
  LET gate_factor == RatMin(Rat(1, 1), RatDiv(Rat(20, 1), t))
  IN << RobustnessEstimateExact("Gaussian", Rat(937, 1000), Rat(3, 100), Rat(965, 1000),
                                Rat(2, 100), gate_factor,
                                [detuning |-> FALSE, amplitude |-> FALSE]),
        RobustnessEstimateExact("DRAG", Rat(990, 1000), Rat(1, 100), Rat(990, 1000),
                                Rat(1, 100), gate_factor,
                                [detuning |-> TRUE, amplitude |-> TRUE]),
        RobustnessEstimateExact("GRAPE", Rat(931, 1000), Rat(4, 100), Rat(994, 1000),
                                Rat(5, 1000), gate_factor,
                                [detuning |-> FALSE, amplitude |-> TRUE]) >>

\* formatErrorBudget: the text block, modelled by the labelled values it
\* prints, in order (the digits kept by toFixed / toExponential are not
\* modelled)
formatErrorBudget(budget) ==
  [kind |-> "error_budget",
   hardware |-> budget.params,
   drag_beta |-> budget.drag_beta,
   t2_over_t_ratio |-> budget.t2_over_t_ratio,
   decoherence_floor |-> budget.decoherence_floor,
   estimated_infidelity |-> budget.estimated_infidelity,
   regime |-> budget.regime,
   recommendation |-> budget.recommendation]

---------------------------------------------------------------------------
\* index.ts: executeTool and the fetch handler

\* most saved configurations held at once
MaxConfigs == 1
\* latest reading of the clock (new Date())
MaxClock == 1

None == [kind |-> "none"]

\* the arguments object of a tool call: a missing property reads as undefined
\* (NoName where the missing property is the name, a string)
NoName == "(undefined)"
ToolArgs(name, alpha_mhz, t1_us, t2_us, gate_time_ns) ==
  [name |-> name, alpha_mhz |-> alpha_mhz, t1_us |-> t1_us, t2_us |-> t2_us,
   gate_time_ns |-> gate_time_ns]

\* a tool's result text: its kind, the input fields whose values it states,
\* the numbers substituted into it and the block of data it lists
ToolText(kind, mentions, values, payload) ==
  [kind |-> kind, mentions |-> mentions, values |-> values, payload |-> payload]

\* executeTool, case "compute_error_budget"
executeComputeErrorBudget(args) ==
  LET params == HardwareParams(args.alpha_mhz, args.t1_us, args.t2_us, args.gate_time_ns)
  IN IF Gt(params.t2_us, Mul(N2, params.t1_us))
     THEN [result |-> ToolText("warning_t2_exceeds_2t1", {"t2_us", "t1_us"},
                               <<params.t2_us, Mul(N2, params.t1_us)>>, None),
           calls |-> <<>>]
     ELSE IF Gt(params.alpha_mhz, N0)
     THEN [result |-> ToolText("warning_positive_alpha", {"alpha_mhz"},
                               <<params.alpha_mhz, Neg(MathAbs(params.alpha_mhz))>>, None),
           calls |-> <<>>]
     ELSE IF Le(params.gate_time_ns, N0) \/ Le(params.t1_us, N0) \/ Le(params.t2_us, N0)
     THEN [result |-> ToolText("error_time_parameters_must_be_positive", {}, <<>>, None),
           calls |-> <<>>]
     ELSE [result |-> ToolText("error_budget",
                               {"alpha_mhz", "t1_us", "t2_us", "gate_time_ns"}, <<>>,
                               formatErrorBudget(computeErrorBudget(params))),
           calls |-> << [fn |-> "computeErrorBudget", params |-> params] >>]

\* executeTool, case "estimate_robustness"
executeEstimateRobustness(args) ==
  LET params == HardwareParams(args.alpha_mhz, args.t1_us, args.t2_us, args.gate_time_ns)
  IN [result |-> ToolText("robustness", {"gate_time_ns"}, <<params.gate_time_ns>>,
                          [kind |-> "robustness", list |-> estimateRobustness(params)]),
      calls |-> << [fn |-> "estimateRobustness", params |-> params] >>]

\* executeTool(toolName, args, state) with new Date() reading now: the text
\* returned, state.configs afterwards and the engine calls made
executeTool(toolName, args, configs, now) ==
  IF toolName = "compute_error_budget"
  THEN executeComputeErrorBudget(args) @@ [configs |-> configs]
  ELSE IF toolName = "estimate_robustness"
  THEN executeEstimateRobustness(args) @@ [configs |-> configs]
  ELSE IF toolName = "save_config"
  THEN LET config == [name |-> args.name,
                      params |-> HardwareParams(args.alpha_mhz, args.t1_us, args.t2_us,
                                                args.gate_time_ns),
                      created_at |-> now]
       IN [result |-> ToolText("saved_configuration", {}, <<>>,
                               [kind |-> "config", name |-> config.name,
                                params |-> config.params]),
           calls |-> <<>>,
           configs |-> Append(configs, config)]
  ELSE IF toolName = "list_configs"
  THEN [result |-> IF Len(configs) = 0
                   THEN ToolText("no_saved_configurations", {}, <<>>, None)
                   ELSE ToolText("saved_configurations", {}, <<>>,
                                 [kind |-> "configs",
                                  list |-> [i \in 1..Len(configs) |->
                                              [name |-> configs[i].name,
                                               params |-> configs[i].params]]]),
        calls |-> <<>>,
        configs |-> configs]
  ELSE [result |-> ToolText("unknown_tool", {}, <<>>, None),
        calls |-> <<>>,
        configs |-> configs]

\* JSON.stringify of a number-valued property: NaN and the infinities are
\* written as null, an undefined property is left out
Null == [k |-> "null", m |-> 0, e |-> 0]
Omitted == [k |-> "omitted", m |-> 0, e |-> 0]
jsonNumber(x) ==
  IF IsFinite(x) THEN x ELSE IF x.k = "undef" THEN Omitted ELSE Null

\* JSON.stringify(budget, null, 2)
jsonBudget(budget) ==
  [kind |-> "budget_json",
   params |-> [f \in DOMAIN budget.params |-> jsonNumber(budget.params[f])],
   decoherence_floor |->
     [f \in DOMAIN budget.decoherence_floor |-> jsonNumber(budget.decoherence_floor[f])],
   estimated_infidelity |->
     [f \in DOMAIN budget.estimated_infidelity |->
        jsonNumber(budget.estimated_infidelity[f])],
   regime |-> budget.regime,
   recommendation |-> budget.recommendation,
   t2_over_t_ratio |-> jsonNumber(budget.t2_over_t_ratio),
   drag_beta |-> jsonNumber(budget.drag_beta)]

\* fetch, POST /api/error-budget: body is the request body, unparsable, the
\* JSON value null, or an object
fetchErrorBudget(body) ==
  IF body.kind = "unparsable"
  THEN [response |-> [status |-> 400, body |-> [kind |-> "error"]], calls |-> <<>>]
  ELSE IF body.kind = "null"
  THEN [response |-> [status |-> 400, body |-> [kind |-> "error"]],
        calls |-> << [fn |-> "computeErrorBudget", params |-> None] >>]
  ELSE [response |-> [status |-> 200, body |-> jsonBudget(computeErrorBudget(body.value))],
        calls |-> << [fn |-> "computeErrorBudget", params |-> body.value] >>]

---------------------------------------------------------------------------
\* index.ts: PulseLabAgent

\* chat messages handled, clear messages handled, malformed messages handled
MaxTurns == 2
MaxClears == 1
MaxMalformed == 1

ChatMessage(role, content, tool_calls, tool_call_id, name) ==
  [role |-> role, content |-> content, tool_calls |-> tool_calls,
   tool_call_id |-> tool_call_id, name |-> name]

\* a ToolCall of the LLM's response: arguments is a string that parses to an
\* object, parses to null, or does not parse
ToolCall(id, name, arguments) == [id |-> id, name |-> name, arguments |-> arguments]

\* a text: the user's message of a turn, the LLM's n-th response of a turn, or
\* one of the fixed texts of handleChat
Text(kind, turn) == [kind |-> kind, turn |-> turn]

\* {}: every property reads as undefined
EmptyArgs == ToolArgs(NoName, Undefined, Undefined, Undefined, Undefined)

\* handleChat: args = JSON.parse(tc.function.arguments), {} when that throws
parseArguments(arguments) ==
  IF arguments.kind = "object" THEN arguments.value ELSE EmptyArgs

\* executeTool reads a property of args: a TypeError when args is null
readsArgsOfNull(tc) ==
  /\ tc.arguments.kind = "null"
  /\ tc.name \in {"compute_error_budget", "estimate_robustness", "save_config"}

\* a row of the table configs
ConfigRow(a, now) ==
  [name |-> a.name, alpha_mhz |-> a.alpha_mhz, t1_us |-> a.t1_us, t2_us |-> a.t2_us,
   gate_time_ns |-> a.gate_time_ns, created_at |-> now]

\* INSERT INTO configs fails: a column declared REAL NOT NULL gets no number
sqlInsertThrows(a) ==
  IsNaN(a.alpha_mhz) \/ IsNaN(a.t1_us) \/ IsNaN(a.t2_us) \/ IsNaN(a.gate_time_ns)

\* toolMessage without the id of the call it answers
toolMessageWithoutId(tc, result) == ChatMessage("tool", result, <<>>, "", tc.name)

\* handleChat: the tool message pushed for tool call tc
toolMessage(tc, result) == ChatMessage("tool", result, <<>>, tc.id, tc.name)

\* handleChat, body of the loop after executeTool returned r for arguments a:
\* the insert for a save_config with a name, then the push of the tool message
persistAndPush(tc, a, r, st, now) ==
  IF tc.name = "save_config" /\ a.name # NoName
  THEN IF sqlInsertThrows(a)
       THEN [st EXCEPT !.configs = r.configs, !.thrown = TRUE]
       ELSE [configs |-> r.configs,
             rows |-> Append(st.rows, ConfigRow(a, now)),
             local |-> Append(st.local, toolMessage(tc, r.result)),
             thrown |-> FALSE]
  ELSE [st EXCEPT !.configs = r.configs,
                  !.local = Append(st.local, toolMessage(tc, r.result))]

\* handleChat, one pass of the loop over the tool calls
runToolCall(tc, st, now) ==
  IF readsArgsOfNull(tc) THEN [st EXCEPT !.thrown = TRUE]
  ELSE persistAndPush(tc, parseArguments(tc.arguments),
                      executeTool(tc.name, parseArguments(tc.arguments), st.configs, now),
                      st, now)

\* handleChat, the loop over the tool calls from call k on, left when one throws
RECURSIVE runToolCalls(_, _, _, _)
runToolCalls(calls, k, st, now) ==
  IF k > Len(calls) \/ st.thrown THEN st
  ELSE runToolCalls(calls, k + 1, runToolCall(calls[k], st, now), now)

\* SELECT * FROM configs ORDER BY created_at (rows of equal created_at in order
\* of insertion)
RECURSIVE insertByCreatedAt(_, _)
insertByCreatedAt(sorted, row) ==
  IF sorted = <<>> THEN <<row>>
  ELSE IF sorted[Len(sorted)].created_at <= row.created_at THEN Append(sorted, row)
  ELSE Append(insertByCreatedAt(SubSeq(sorted, 1, Len(sorted) - 1), row),
              sorted[Len(sorted)])

RECURSIVE orderByCreatedAt(_)
orderByCreatedAt(rows) ==
  IF rows = <<>> THEN <<>>
  ELSE insertByCreatedAt(orderByCreatedAt(SubSeq(rows, 1, Len(rows) - 1)),
                         rows[Len(rows)])

\* onConnect: the SavedConfig of a row
configOfRow(row) ==
  [name |-> row.name,
   params |-> HardwareParams(row.alpha_mhz, row.t1_us, row.t2_us, row.gate_time_ns),
   created_at |-> row.created_at]

\* onConnect: the configs loaded from the table
loadConfigs(rows) ==
  [i \in 1..Len(rows) |-> configOfRow(orderByCreatedAt(rows)[i])]

\* clearState that resets the saved configurations as well
clearStateAndConfigs(state) == [messages |-> <<>>, configs |-> <<>>]

\* onMessage, {type: "clear"}: the state set
clearState(state) == [messages |-> <<>>, configs |-> state.configs]

\* handleChat: content = response ?? fixed text
contentOrFallback(response, fallback) ==
  IF response.kind = "undefined" THEN Text(fallback, 0) ELSE response

\* a call of handleChat that has not begun
IdleTurn == [pc |-> "idle", base |-> 0, local |-> <<>>, toolCalls |-> <<>>]

\* a message sent on the connection
Sent(type, turn, content) == [type |-> type, turn |-> turn, content |-> content]

---------------------------------------------------------------------------
\* State

VARIABLES
  fn,           \* engine function under application (engine specification)
  args,         \* the HardwareParams of its two calls
  ret,          \* what the two calls returned (None before the call)
  pc,           \* "idle", or the handler a received request is waiting for
  request,      \* the request being handled, or the last one handled
  outcome,      \* the tool's result text / the HTTP response of that request
  engineCalls,  \* the calls into physics.ts made while handling it
  configs,      \* state.configs
  clock,        \* the last reading of new Date()
  messages,     \* state.messages
  sqlConfigs,   \* the rows of the SQL table configs, in order of insertion
  turns,        \* the calls of handleChat: where each stands and its local messages
  sent,         \* what connection.send has sent, in order
  connected,    \* onConnect has run
  heap          \* the HardwareParams objects a caller of the engine holds

vars ==
  <<fn, args, ret, pc, request, outcome, engineCalls, configs, clock, messages,
    sqlConfigs, turns, sent, connected, heap>>
engineVars == <<fn, args, ret>>
agentVars == <<messages, sqlConfigs, turns, sent, connected>>
serverVars == <<pc, request, outcome, engineCalls, configs, clock, agentVars, heap>>

\* 2^k, for k in the exponent range of normal numbers
P2(k) == Num(2 ^ (Prec - 1), k - (Prec - 1))

---------------------------------------------------------------------------
\* Requests reaching executeTool and fetch

ToolNames ==
  {"compute_error_budget", "estimate_robustness", "save_config", "list_configs",
   "no_such_tool"}

ArgAlpha == {Lit(-200, 1), Lit(200, 1)}
ArgT1 == {Undefined, Lit(-1, 1), Zero, Lit(1, 1)}
ArgT2 == {Undefined, Zero, Lit(1, 1), Lit(3, 1)}
ArgGate == {Undefined, Zero, Lit(20, 1)}

\* arguments carrying hardware parameters; {} when the arguments are missing
\* or did not parse
ParamArgs ==
  {ToolArgs(NoName, a, t1, t2, g) :
     a \in ArgAlpha, t1 \in ArgT1, t2 \in ArgT2, g \in ArgGate}
  \cup {ToolArgs(NoName, Undefined, Undefined, Undefined, Undefined)}

SaveArgs ==
  {ToolArgs(n, Lit(-200, 1), Lit(37, 1), Lit(10, 1), Lit(20, 1)) :
     n \in {"A", "B", NoName}}

ArgsOf(toolName) ==
  IF toolName \in {"compute_error_budget", "estimate_robustness"} THEN ParamArgs
  ELSE IF toolName = "save_config" THEN SaveArgs
  ELSE {ToolArgs(NoName, Undefined, Undefined, Undefined, Undefined)}

Bodies ==
  {[kind |-> "unparsable"], [kind |-> "null"]}
  \cup {[kind |-> "object", value |-> HardwareParams(a.alpha_mhz, a.t1_us, a.t2_us,
                                                     a.gate_time_ns)] : a \in ParamArgs}

InitServer ==
  /\ pc = "idle"
  /\ request = None
  /\ outcome = None
  /\ engineCalls = <<>>
  /\ configs = <<>>
  /\ clock = 0
  /\ messages = <<>>
  /\ sqlConfigs = <<>>
  /\ turns = [t \in 1..MaxTurns |-> IdleTurn]
  /\ sent = <<>>
  /\ connected = FALSE
  /\ heap = <<>>

\* a tool call (name, parsed arguments) reaches executeTool
ReceiveToolCall(toolName, a) ==
  /\ pc = "idle"
  /\ toolName = "save_config" => Len(configs) < MaxConfigs
  /\ request' = [entry |-> "tool", toolName |-> toolName, args |-> a]
  /\ outcome' = None
  /\ engineCalls' = <<>>
  /\ pc' = "executeTool"
  /\ UNCHANGED <<configs, clock, engineVars, agentVars, heap>>

ExecuteTool ==
  /\ pc = "executeTool"
  /\ \E now \in (IF request.toolName = "save_config" THEN clock..MaxClock ELSE {clock}) :
       LET r == executeTool(request.toolName, request.args, configs, now)
       IN /\ outcome' = r.result
          /\ engineCalls' = r.calls
          /\ configs' = r.configs
          /\ clock' = now
  /\ pc' = "idle"
  /\ UNCHANGED <<request, engineVars, agentVars, heap>>

\* an HTTP request reaches fetch
ReceiveRequest(path, body) ==
  /\ pc = "idle"
  /\ request' = [entry |-> "fetch", path |-> path, body |-> body]
  /\ outcome' = None
  /\ engineCalls' = <<>>
  /\ pc' = "fetch"
  /\ UNCHANGED <<configs, clock, engineVars, agentVars, heap>>

\* fetch answers POST /api/error-budget
FetchErrorBudget ==
  /\ pc = "fetch"
  /\ request.path = "POST /api/error-budget"
  /\ LET r == fetchErrorBudget(request.body)
     IN /\ outcome' = r.response
        /\ engineCalls' = r.calls
  /\ pc' = "idle"
  /\ UNCHANGED <<request, configs, clock, engineVars, agentVars, heap>>

\* fetch hands any other request to routeAgentRequest, and answers 404 when
\* that returns nothing
FetchOther ==
  /\ pc = "fetch"
  /\ request.path # "POST /api/error-budget"
  /\ \E routed \in BOOLEAN :
       outcome' = IF routed THEN [status |-> 101, body |-> [kind |-> "agent"]]
                  ELSE [status |-> 404, body |-> [kind |-> "not_found"]]
  /\ engineCalls' = <<>>
  /\ pc' = "idle"
  /\ UNCHANGED <<request, configs, clock, engineVars, agentVars, heap>>

Init ==
  /\ InitServer
  /\ fn = "none"
  /\ args = <<>>
  /\ ret = <<>>

Next ==
  \/ \E toolName \in ToolNames : \E a \in ArgsOf(toolName) : ReceiveToolCall(toolName, a)
  \/ ExecuteTool
  \/ \E body \in Bodies : ReceiveRequest("POST /api/error-budget", body)
  \/ ReceiveRequest("GET /", [kind |-> "none"])
  \/ FetchErrorBudget
  \/ FetchOther

Spec == Init /\ [][Next]_vars

---------------------------------------------------------------------------
\* PulseLabAgent: connections, messages and chat turns

ObjectArgs(a) == [kind |-> "object", value |-> a]
SavedParams(name) == ToolArgs(name, Lit(-200, 1), Lit(37, 1), Lit(10, 1), Lit(20, 1))

\* the tool_calls an LLM response may carry
ToolCallLists ==
  { << ToolCall("c1", "save_config", ObjectArgs(SavedParams("A"))) >>,
    << ToolCall("c1", "save_config", ObjectArgs(SavedParams(NoName))),
       ToolCall("c2", "list_configs", ObjectArgs(EmptyArgs)) >>,
    << ToolCall("c1", "save_config", ObjectArgs(SavedParams("B"))),
       ToolCall("c2", "save_config",
                ObjectArgs(ToolArgs("C", Undefined, Undefined, Undefined, Undefined))) >>,
    << ToolCall("c1", "no_such_tool", [kind |-> "unparsable"]),
       ToolCall("c2", "compute_error_budget", ObjectArgs(SavedParams(NoName))) >>,
    << ToolCall("c1", "estimate_robustness", [kind |-> "null"]) >> }

\* the response property of an LLM response of turn t: a text, or missing
Responses(t, kind) == {Text(kind, t), [kind |-> "undefined"]}

CountSent(type, turn) ==
  Cardinality({i \in 1..Len(sent) : sent[i].type = type /\ sent[i].turn = turn})

\* onConnect: create the table if it is missing, load the saved configs
OnConnect ==
  /\ connected' = TRUE
  /\ configs' = loadConfigs(sqlConfigs)
  /\ UNCHANGED <<messages, sqlConfigs, turns, sent, clock, heap>>
  /\ UNCHANGED <<pc, request, outcome, engineCalls, engineVars>>

\* onMessage, a message that is not JSON: the catch sends an error
OnMessageMalformed ==
  /\ connected
  /\ CountSent("error", 0) < MaxMalformed
  /\ sent' = Append(sent, Sent("error", 0, Text("error", 0)))
  /\ UNCHANGED <<messages, sqlConfigs, turns, connected, configs, clock, heap>>
  /\ UNCHANGED <<pc, request, outcome, engineCalls, engineVars>>

\* onMessage, {type: "clear"}
OnMessageClear ==
  /\ connected
  /\ CountSent("cleared", 0) < MaxClears
  /\ messages' = clearState([messages |-> messages, configs |-> configs]).messages
  /\ configs' = clearState([messages |-> messages, configs |-> configs]).configs
  /\ sent' = Append(sent, Sent("cleared", 0, Text("cleared", 0)))
  /\ UNCHANGED <<sqlConfigs, turns, connected, clock, heap>>
  /\ UNCHANGED <<pc, request, outcome, engineCalls, engineVars>>

\* onMessage, {type: "chat"}: handleChat up to its first await
OnMessageChat(t) ==
  /\ connected
  /\ turns[t].pc = "idle"
  /\ \A u \in 1..(t - 1) : turns[u].pc # "idle"
  /\ turns' = [turns EXCEPT ![t] =
                 [pc |-> "llm1", base |-> Len(messages),
                  local |-> Append(messages,
                                   ChatMessage("user", Text("user", t), <<>>, "", "")),
                  toolCalls |-> <<>>]]
  /\ sent' = Append(sent, Sent("thinking", t, Text("thinking", t)))
  /\ UNCHANGED <<messages, sqlConfigs, connected, configs, clock, heap>>
  /\ UNCHANGED <<pc, request, outcome, engineCalls, engineVars>>

\* a catch that swallows the exception: the turn ends and nothing is sent
LLMThrowsSilently(t) ==
  /\ turns[t].pc \in {"llm1", "llm2"}
  /\ turns' = [turns EXCEPT ![t].pc = "failed"]
  /\ UNCHANGED <<sent, messages, sqlConfigs, connected, configs, clock, heap>>
  /\ UNCHANGED <<pc, request, outcome, engineCalls, engineVars>>

\* handleChat throws at an await: the catch of onMessage sends an error
LLMThrows(t) ==
  /\ turns[t].pc \in {"llm1", "llm2"}
  /\ turns' = [turns EXCEPT ![t].pc = "failed"]
  /\ sent' = Append(sent, Sent("error", t, Text("error", t)))
  /\ UNCHANGED <<messages, sqlConfigs, connected, configs, clock, heap>>
  /\ UNCHANGED <<pc, request, outcome, engineCalls, engineVars>>

\* handleChat: the last push, setState and send, with the assistant's content
storeAndRespond(t, content) ==
  /\ messages' = Append(turns[t].local, ChatMessage("assistant", content, <<>>, "", ""))
  /\ turns' = [turns EXCEPT ![t].pc = "responded",
                            ![t].local = Append(turns[t].local,
                                                ChatMessage("assistant", content, <<>>,
                                                            "", ""))]
  /\ sent' = Append(sent, Sent("response", t, content))

\* handleChat, the first LLM call returns no tool calls
LLMFirstAnswers(t, response) ==
  /\ turns[t].pc = "llm1"
  /\ storeAndRespond(t, contentOrFallback(response, "could_not_generate"))
  /\ UNCHANGED <<sqlConfigs, connected, configs, clock, heap>>
  /\ UNCHANGED <<pc, request, outcome, engineCalls, engineVars>>

\* the state the loop over the tool calls of turn t starts from
loopStart(t, calls) ==
  [configs |-> configs, rows |-> sqlConfigs,
   local |-> Append(turns[t].local,
                    ChatMessage("assistant", Text("empty", 0), calls, "", "")),
   thrown |-> FALSE]

\* handleChat, the first LLM call returns tool calls: the assistant message,
\* the loop over the tool calls (it awaits nothing; now is its reading of the
\* clock), up to the second await or to the catch of onMessage
LLMFirstCallsTools(t, calls, now) ==
  /\ turns[t].pc = "llm1"
  /\ configs' = runToolCalls(calls, 1, loopStart(t, calls), now).configs
  /\ sqlConfigs' = runToolCalls(calls, 1, loopStart(t, calls), now).rows
  /\ clock' = now
  /\ IF runToolCalls(calls, 1, loopStart(t, calls), now).thrown
     THEN /\ turns' = [turns EXCEPT ![t].pc = "failed", ![t].toolCalls = calls]
          /\ sent' = Append(sent, Sent("error", t, Text("error", t)))
     ELSE /\ turns' = [turns EXCEPT
                         ![t].pc = "llm2",
                         ![t].local = runToolCalls(calls, 1, loopStart(t, calls), now).local,
                         ![t].toolCalls = calls]
          /\ sent' = sent
  /\ UNCHANGED <<messages, connected, heap>>
  /\ UNCHANGED <<pc, request, outcome, engineCalls, engineVars>>

\* handleChat, the second LLM call returns
LLMSecondAnswers(t, response) ==
  /\ turns[t].pc = "llm2"
  /\ storeAndRespond(t, contentOrFallback(response, "trouble_formatting"))
  /\ UNCHANGED <<sqlConfigs, connected, configs, clock, heap>>
  /\ UNCHANGED <<pc, request, outcome, engineCalls, engineVars>>

NextAgent ==
  \/ OnConnect
  \/ OnMessageMalformed
  \/ OnMessageClear
  \/ \E t \in 1..MaxTurns : OnMessageChat(t)
  \/ \E t \in 1..MaxTurns : LLMThrows(t)
  \/ \E t \in 1..MaxTurns : \E r \in Responses(t, "llm_first") : LLMFirstAnswers(t, r)
  \/ \E t \in 1..MaxTurns : \E calls \in ToolCallLists : \E now \in clock..MaxClock :
       LLMFirstCallsTools(t, calls, now)
  \/ \E t \in 1..MaxTurns : \E r \in Responses(t, "llm_second") : LLMSecondAnswers(t, r)

SpecAgent == Init /\ [][NextAgent]_vars

\* an env.AI.run that turn t awaits settles: it returns or it throws
LLMSettles(t) ==
  \/ LLMThrows(t)
  \/ \E r \in Responses(t, "llm_first") : LLMFirstAnswers(t, r)
  \/ \E calls \in ToolCallLists : \E now \in clock..MaxClock :
       LLMFirstCallsTools(t, calls, now)
  \/ \E r \in Responses(t, "llm_second") : LLMSecondAnswers(t, r)

\* every LLM call eventually returns or throws
SpecAgentFair == SpecAgent /\ \A t \in 1..MaxTurns : WF_vars(LLMSettles(t))

---------------------------------------------------------------------------
\* The engine's pure functions applied to pairs of inputs

NegAlpha == Lit(-200, 1)

FloorInputs ==
  {HardwareParams(NegAlpha, t1, t2, g) :
     t1 \in {P2(-100), Lit(20, 1), Lit(29, 1), Lit(37, 1)},
     t2 \in {P2(-99), Lit(11, 1), Lit(40, 1), Lit(58, 1), Lit(74, 1)},
     g \in {Lit(1, 1), Lit(20, 1), P2(1000)}}

CoherentInputs ==
  {HardwareParams(a, Lit(37, 1), Lit(10, 1), g) :
     a \in {Lit(-200, 1), Lit(200, 1), Lit(-400, 1), Lit(400, 1), P2(600), Zero},
     g \in {P2(-300), Lit(10, 1), Lit(20, 1), Lit(40, 1)}}

BudgetAlphas == {Lit(-200, 1), Lit(200, 1), Lit(-400, 1), P2(600), Zero}

BudgetInputs ==
  {HardwareParams(a, t1, t2, g) :
     a \in BudgetAlphas,
     t1 \in {P2(-100), Lit(1, 1), Lit(37, 1)},
     t2 \in {P2(-99), Lit(1, 1), Lit(2, 1), Lit(10, 1)},
     g \in {P2(-300), Lit(10, 1), Lit(239, 16), Lit(15, 1), Lit(20, 1), Lit(40, 1),
            P2(1000)}}

BudgetProbes ==
  {HardwareParams(a, Lit(37, 1), Lit(10, 1), Lit(20, 1)) : a \in BudgetAlphas}
  \cup {HardwareParams(a, Lit(1, 1), Lit(2, 1), Lit(10, 1)) : a \in BudgetAlphas}

\* gate times from far below to far above the 20 ns reference
RobustnessGates ==
  {P2(-300), Lit(1, 2), Lit(1, 1), Lit(10, 1), Lit(19, 1), Lit(20, 1), Lit(21, 1),
   Lit(40, 1), Lit(100, 1), Lit(1000, 1), P2(1000)}

RobustnessInputs ==
  {HardwareParams(NegAlpha, Lit(37, 1), Lit(10, 1), g) : g \in RobustnessGates}
  \cup {HardwareParams(Lit(200, 1), Lit(1, 1), Lit(3, 1), g) : g \in RobustnessGates}

ArgPairs(f) ==
  IF f = "computeDecoherenceFloor" THEN FloorInputs \X FloorInputs
  ELSE IF f = "estimateRobustness" THEN RobustnessInputs \X RobustnessInputs
  ELSE IF f = "computeErrorBudget" THEN BudgetInputs \X BudgetProbes
  ELSE CoherentInputs \X CoherentInputs

EngineFns ==
  {"computeDecoherenceFloor", "estimateDragCoherentError",
   "estimateGaussianCoherentError", "computeErrorBudget", "estimateRobustness"}

InitEngine ==
  /\ InitServer
  /\ fn \in EngineFns
  /\ args \in ArgPairs(fn)
  /\ ret = <<None, None>>

CallComputeDecoherenceFloor(i) ==
  /\ fn = "computeDecoherenceFloor"
  /\ ret[i] = None
  /\ ret' = [ret EXCEPT ![i] = computeDecoherenceFloor(args[i].gate_time_ns,
                                                       args[i].t1_us, args[i].t2_us)]
  /\ UNCHANGED <<fn, args, serverVars>>

CallEstimateDragCoherentError(i) ==
  /\ fn = "estimateDragCoherentError"
  /\ ret[i] = None
  /\ ret' = [ret EXCEPT ![i] = estimateDragCoherentError(args[i].gate_time_ns,
                                                         args[i].alpha_mhz)]
  /\ UNCHANGED <<fn, args, serverVars>>

CallEstimateGaussianCoherentError(i) ==
  /\ fn = "estimateGaussianCoherentError"
  /\ ret[i] = None
  /\ ret' = [ret EXCEPT ![i] = estimateGaussianCoherentError(args[i].gate_time_ns,
                                                             args[i].alpha_mhz)]
  /\ UNCHANGED <<fn, args, serverVars>>

CallComputeErrorBudget(i) ==
  /\ fn = "computeErrorBudget"
  /\ ret[i] = None
  /\ ret' = [ret EXCEPT ![i] = computeErrorBudget(args[i])]
  /\ UNCHANGED <<fn, args, serverVars>>

CallEstimateRobustness(i) ==
  /\ fn = "estimateRobustness"
  /\ ret[i] = None
  /\ ret' = [ret EXCEPT ![i] = [kind |-> "robustness",
                                list |-> estimateRobustness(args[i])]]
  /\ UNCHANGED <<fn, args, serverVars>>

NextEngine ==
  \E i \in {1, 2} :
    \/ CallComputeDecoherenceFloor(i)
    \/ CallEstimateDragCoherentError(i)
    \/ CallEstimateGaussianCoherentError(i)
    \/ CallComputeErrorBudget(i)
    \/ CallEstimateRobustness(i)

SpecEngine == InitEngine /\ [][NextEngine]_vars

---------------------------------------------------------------------------
\* The engine called by a caller that keeps its HardwareParams objects.
\* heap[a] is the object at address a; an ErrorBudget holds the address of
\* its params, and its other fields by value.

HeapObjects ==
  {HardwareParams(NegAlpha, t1, Lit(10, 1), g) :
     t1 \in {Lit(37, 1), Lit(20, 1)}, g \in {Lit(20, 1), Lit(40, 1)}}

WritableFields == {"t1_us", "gate_time_ns"}

WrittenValues == {Lit(20, 1), Lit(40, 1)}

\* return { params, decoherence_floor: floor, ... }: params is the caller's
\* object; atReturn is the budget as it reads when the call returns
BudgetObject(a, budget) == [kind |-> "budget", ref |-> a, atReturn |-> budget]

\* the budget as it reads now: result.params is read through the reference
readBudget(result) ==
  IF result.ref \in DOMAIN heap
  THEN [result.atReturn EXCEPT !.params = heap[result.ref]]
  ELSE result.atReturn

InitFrame ==
  /\ pc = "idle"
  /\ request = None
  /\ outcome = None
  /\ engineCalls = <<>>
  /\ configs = <<>>
  /\ clock = 0
  /\ messages = <<>>
  /\ sqlConfigs = <<>>
  /\ turns = [t \in 1..MaxTurns |-> IdleTurn]
  /\ sent = <<>>
  /\ connected = FALSE
  /\ heap \in HeapObjects \X HeapObjects
  /\ fn \in {"computeErrorBudget", "estimateRobustness"}
  /\ args \in (DOMAIN heap) \X (DOMAIN heap)
  /\ ret = <<None, None>>

\* computeErrorBudget(heap[a]): reads the object, writes nothing to it
FrameComputeErrorBudget(i) ==
  /\ fn = "computeErrorBudget"
  /\ ret[i] = None
  /\ ret' = [ret EXCEPT ![i] = BudgetObject(args[i], computeErrorBudget(heap[args[i]]))]
  /\ UNCHANGED <<fn, args, heap, pc, request, outcome, engineCalls, configs, clock, agentVars>>

\* estimateRobustness(heap[a]): reads gate_time_ns, embeds nothing
FrameEstimateRobustness(i) ==
  /\ fn = "estimateRobustness"
  /\ ret[i] = None
  /\ ret' = [ret EXCEPT ![i] = [kind |-> "robustness", ref |-> 0,
                                atReturn |-> estimateRobustness(heap[args[i]])]]
  /\ UNCHANGED <<fn, args, heap, pc, request, outcome, engineCalls, configs, clock, agentVars>>

\* the caller assigns to a field of one of its own objects: p.t1_us = v
CallerWritesInput(a, field, v) ==
  /\ heap[a][field] # v
  /\ heap' = [heap EXCEPT ![a] = [@ EXCEPT ![field] = v]]
  /\ UNCHANGED <<fn, args, ret, pc, request, outcome, engineCalls, configs, clock, agentVars>>

\* the caller assigns through a result: budget.params.t1_us = v
CallerWritesResult(i, field, v) ==
  /\ ret[i] # None
  /\ ret[i].ref \in DOMAIN heap
  /\ heap[ret[i].ref][field] # v
  /\ heap' = [heap EXCEPT ![ret[i].ref] = [@ EXCEPT ![field] = v]]
  /\ UNCHANGED <<fn, args, ret, pc, request, outcome, engineCalls, configs, clock, agentVars>>

NextFrame ==
  \/ \E i \in {1, 2} : FrameComputeErrorBudget(i)
  \/ \E i \in {1, 2} : FrameEstimateRobustness(i)
  \/ \E a \in DOMAIN heap, field \in WritableFields, v \in WrittenValues :
       CallerWritesInput(a, field, v)
  \/ \E i \in {1, 2}, field \in WritableFields, v \in WrittenValues :
       CallerWritesResult(i, field, v)

SpecFrame == InitFrame /\ [][NextFrame]_vars

---------------------------------------------------------------------------
\* Properties of the engine (checked under SpecEngine)

Returned(i) == ret[i] # None
Positive(x) == Gt(x, N0)
PositiveTimes(p) ==
  Positive(p.gate_time_ns) /\ Positive(p.t1_us) /\ Positive(p.t2_us)
ValidInput(p) == PositiveTimes(p) /\ ~IsNaN(p.alpha_mhz) /\ ~IsZero(p.alpha_mhz)
SameNumber(x, y) == ~IsNaN(x) /\ ~IsNaN(y) /\ x = y

\* the regime the ordered rule list gives for the budget b of params p
RegimeByRules(p, b) ==
  IF Lt(p.gate_time_ns, N15) THEN "short_gate_regime"
  ELSE IF Lt(estimateDragCoherentError(p.gate_time_ns, p.alpha_mhz),
             Mul(Half, b.decoherence_floor.total))
  THEN "drag_sufficient"
  ELSE "grape_needed"

\* C1: the regime of every budget is the one the rule list gives, first match
\* wins: short-gate whenever gate_time_ns < 15, whatever the comparison of the
\* DRAG coherent error with half the floor says; otherwise drag_sufficient when
\* the coherent error is below half the floor; otherwise grape_needed.  A gate
\* time just below 15 is short-gate, a gate time of 15 never is.
C1_RegimeFirstMatchWins ==
  fn = "computeErrorBudget" =>
    \A i \in {1, 2} :
      Returned(i) =>
        /\ ret[i].regime = RegimeByRules(args[i], ret[i])
        /\ args[i].gate_time_ns = Lit(239, 16) => ret[i].regime = "short_gate_regime"
        /\ args[i].gate_time_ns = N15 => ret[i].regime # "short_gate_regime"

\* a budget for a gate time below 15 whose DRAG coherent error is also below
\* half the floor: both rules match and the first decides
C1_Witness ==
  /\ fn = "computeErrorBudget"
  /\ Returned(1)
  /\ Lt(args[1].gate_time_ns, N15)
  /\ Lt(estimateDragCoherentError(args[1].gate_time_ns, args[1].alpha_mhz),
        Mul(Half, ret[1].decoherence_floor.total))
  /\ ret[1].regime = "short_gate_regime"

\* the ordering of the three totals of budget b
TotalsOrdered(b) ==
  /\ Le(b.estimated_infidelity.grape, b.estimated_infidelity.drag)
  /\ Le(b.estimated_infidelity.grape, b.estimated_infidelity.gaussian)
  /\ Ge(b.estimated_infidelity.gaussian, b.decoherence_floor.total)
  /\ Ge(b.estimated_infidelity.drag, b.decoherence_floor.total)
  /\ Ge(b.estimated_infidelity.grape, b.decoherence_floor.total)
  /\ SameNumber(b.estimated_infidelity.grape, b.decoherence_floor.total)

NoNaNTerms(p) ==
  /\ ~IsNaN(computeDecoherenceFloor(p.gate_time_ns, p.t1_us, p.t2_us).total)
  /\ ~IsNaN(estimateDragCoherentError(p.gate_time_ns, p.alpha_mhz))
  /\ ~IsNaN(estimateGaussianCoherentError(p.gate_time_ns, p.alpha_mhz))

\* the totals of budget b of params p when a term overflowed to NaN: the GRAPE
\* total is still the floor total, and a total with a NaN term is NaN
TotalsNaN(p, b) ==
  /\ b.estimated_infidelity.grape = b.decoherence_floor.total
  /\ IsNaN(b.decoherence_floor.total) =>
       /\ IsNaN(b.estimated_infidelity.drag)
       /\ IsNaN(b.estimated_infidelity.gaussian)
  /\ IsNaN(estimateDragCoherentError(p.gate_time_ns, p.alpha_mhz)) =>
       IsNaN(b.estimated_infidelity.drag)
  /\ IsNaN(estimateGaussianCoherentError(p.gate_time_ns, p.alpha_mhz)) =>
       IsNaN(b.estimated_infidelity.gaussian)

C3_Original_FloorMonotone ==
  (fn = "computeDecoherenceFloor" /\ Returned(1) /\ Returned(2)
     /\ PositiveTimes(args[1]) /\ PositiveTimes(args[2])) =>
    LET p == args[1]
        q == args[2]
    IN /\ (p.t1_us = q.t1_us /\ p.t2_us = q.t2_us /\ Le(p.gate_time_ns, q.gate_time_ns))
            => Le(ret[1].total, ret[2].total)
       /\ (p.gate_time_ns = q.gate_time_ns /\ p.t2_us = q.t2_us /\ Le(p.t1_us, q.t1_us))
            => Ge(ret[1].total, ret[2].total)
       /\ (p.gate_time_ns = q.gate_time_ns /\ p.t1_us = q.t1_us /\ Le(p.t2_us, q.t2_us))
            => Ge(ret[1].total, ret[2].total)

\* the three results of the floor computed from gate time T and coherence
\* times t1, t2 in microseconds, converted to nanoseconds first
FloorFormulas(p, f) ==
  LET T == p.gate_time_ns
      T1 == Mul(p.t1_us, N1000)
      T2 == Mul(p.t2_us, N1000)
  IN /\ f.t1_contribution = Div(T, Mul(N2, T1))
     /\ f.t2_contribution = MathMax(N0, Sub(Div(T, T2), Div(T, Mul(N2, T1))))
     /\ f.total = Add(f.t1_contribution, f.t2_contribution)

DephasingRatioOverflows(p) == IsInf(Div(p.gate_time_ns, Mul(p.t2_us, N1000)))

RefError(f) ==
  IF f = "estimateDragCoherentError" THEN Lit(49, 100000) ELSE Lit(28, 1000)
\* the power of the gate-time ratio in each model
GatePower(f) == IF f = "estimateDragCoherentError" THEN 4 ELSE 2

C6_BetaIndependence ==
  (fn = "computeErrorBudget" /\ Returned(1) /\ Returned(2)
     /\ args[1].alpha_mhz = args[2].alpha_mhz) =>
    ret[1].drag_beta = ret[2].drag_beta

\* two budgets with the same anharmonicity, different t1_us, t2_us and
\* gate_time_ns and different regimes, and a finite drag_beta
C6_Witness ==
  /\ fn = "computeErrorBudget"
  /\ Returned(1) /\ Returned(2)
  /\ args[1].alpha_mhz = args[2].alpha_mhz
  /\ args[1].t1_us # args[2].t1_us
  /\ args[1].t2_us # args[2].t2_us
  /\ args[1].gate_time_ns # args[2].gate_time_ns
  /\ ret[1].regime # ret[2].regime
  /\ IsFinite(ret[1].drag_beta)
  /\ ret[1].drag_beta = ret[2].drag_beta

---------------------------------------------------------------------------
\* Properties of executeTool and fetch (checked under Spec)

\* the request has been handled and its outcome stands
Handled == pc = "idle" /\ request # None
ToolHandled(toolName) ==
  Handled /\ request.entry = "tool" /\ request.toolName = toolName
FetchHandled ==
  Handled /\ request.entry = "fetch" /\ request.path = "POST /api/error-budget"
  /\ request.body.kind = "object"

NonPositive(x) == Le(x, N0)
\* the time parameters of p that are <= 0
NonPositiveFields(p) ==
  {f \in {"gate_time_ns", "t1_us", "t2_us"} : NonPositive(p[f])}

\* the outcome carries an error budget
CarriesBudget ==
  \/ request.entry = "tool" /\ outcome.kind = "error_budget"
  \/ request.entry = "fetch" /\ outcome.status = 200

\* C8 as stated: whenever one of gate_time_ns, t1_us, t2_us is <= 0 in a
\* compute_error_budget tool call, the computation is refused, no error budget
\* is produced, and the reported outcome says which field failed.
C8_Original_NonPositiveNamesField ==
  (ToolHandled("compute_error_budget") /\ NonPositiveFields(request.args) # {}) =>
    /\ ~CarriesBudget
    /\ engineCalls = <<>>
    /\ outcome.mentions \cap NonPositiveFields(request.args) # {}

\* a time parameter is a positive number
PositiveNumber(x) == ~IsNaN(x) /\ Gt(x, N0)

\* C9 as stated: on no sequence of requests is computeErrorBudget or
\* estimateRobustness invoked with a gate_time_ns, t1_us or t2_us that is
\* non-positive or not a number.
C9_Original_ValidatedBeforeComputation ==
  \A i \in 1..Len(engineCalls) :
    /\ engineCalls[i].params # None
    /\ PositiveNumber(engineCalls[i].params.gate_time_ns)
    /\ PositiveNumber(engineCalls[i].params.t1_us)
    /\ PositiveNumber(engineCalls[i].params.t2_us)

\* the hardware parameters an error-budget request carries
RequestParams ==
  IF request.entry = "tool" THEN request.args ELSE request.body.value

\* C10 as stated: whenever t2_us > 2 * t1_us, on either entry point to the
\* error budget, the outcome is a warning carrying the two violating values,
\* and no error budget is returned in its place.
C10_Original_UnphysicalDephasingWarned ==
  ((ToolHandled("compute_error_budget") \/ FetchHandled)
     /\ Gt(RequestParams.t2_us, Mul(N2, RequestParams.t1_us))) =>
    /\ ~CarriesBudget
    /\ request.entry = "tool"
    /\ outcome.kind = "warning_t2_exceeds_2t1"
    /\ outcome.values = <<RequestParams.t2_us, Mul(N2, RequestParams.t1_us)>>

\* the time parameters of p are positive with t2_us <= 2 * t1_us
ValidTimes(p) ==
  /\ PositiveTimes(p)
  /\ Le(p.t2_us, Mul(N2, p.t1_us))

\* C11 as stated: when the anharmonicity is positive and the time parameters
\* are valid, the outcome of compute_error_budget is a warning that suggests
\* -|alpha_mhz|, the request is not refused and an error budget is still
\* produced.
C11_Original_PositiveAlphaNotFatal ==
  (ToolHandled("compute_error_budget") /\ Gt(request.args.alpha_mhz, N0)
     /\ ValidTimes(request.args)) =>
    /\ Neg(MathAbs(request.args.alpha_mhz)) \in
         {outcome.values[i] : i \in 1..Len(outcome.values)}
    /\ outcome.payload # None
    /\ outcome.payload.kind = "error_budget"
    /\ Len(engineCalls) = 1

---------------------------------------------------------------------------
\* Properties of the engine on validated inputs (checked under SpecEngine)

\* p passes the validation of compute_error_budget: positive times,
\* t2_us <= 2 * t1_us, anharmonicity not positive
PassesValidation(p) ==
  /\ ValidTimes(p)
  /\ Le(p.alpha_mhz, N0)

\* every number of budget b is finite
CompleteBudget(b) ==
  /\ IsFinite(b.decoherence_floor.t1_contribution)
  /\ IsFinite(b.decoherence_floor.t2_contribution)
  /\ IsFinite(b.decoherence_floor.total)
  /\ IsFinite(b.estimated_infidelity.gaussian)
  /\ IsFinite(b.estimated_infidelity.drag)
  /\ IsFinite(b.estimated_infidelity.grape)
  /\ IsFinite(b.drag_beta)
  /\ b.regime \in {"short_gate_regime", "drag_sufficient", "grape_needed"}
  /\ b.recommendation.template = b.regime

\* C12 as stated: for every input that passes validation computeErrorBudget
\* returns a complete result: a finite decoherence floor, three finite
\* infidelity values, a finite drag_beta, a regime and a recommendation.
C12_Original_CompleteAfterValidation ==
  fn = "computeErrorBudget" =>
    \A i \in {1, 2} :
      (Returned(i) /\ PassesValidation(args[i])) => CompleteBudget(ret[i])

---------------------------------------------------------------------------
\* Properties of estimateRobustness (checked under SpecEngine)

\* the reference table as stated: per method the detuning reference and
\* coefficient and the amplitude reference and coefficient, in thousandths
StatedTable ==
  << [method |-> "Gaussian", det_ref |-> 937, det_coef |-> 30, amp_ref |-> 965,
      amp_coef |-> 20],
     [method |-> "DRAG", det_ref |-> 990, det_coef |-> 10, amp_ref |-> 990,
      amp_coef |-> 10],
     [method |-> "GRAPE", det_ref |-> 931, det_coef |-> 40, amp_ref |-> 994,
      amp_coef |-> 5] >>

StatedGateFactor(p) == MathMin(N1, Div(N20, p.gate_time_ns))
StatedFidelity(ref, coef, gate_factor) ==
  Mul(Lit(ref, 1000), Sub(N1, Mul(Lit(coef, 1000), gate_factor)))

\* list holds the three estimates of params p, in the stated order, each
\* fidelity by the stated formula and none above its reference value, with a
\* gate factor in (0, 1]
RobustnessAsStated(p, list) ==
  /\ Len(list) = 3
  /\ Gt(StatedGateFactor(p), N0) /\ Le(StatedGateFactor(p), N1)
  /\ \A j \in 1..3 :
       /\ list[j].method = StatedTable[j].method
       /\ list[j].detuning_min_fidelity =
            StatedFidelity(StatedTable[j].det_ref, StatedTable[j].det_coef,
                           StatedGateFactor(p))
       /\ list[j].amplitude_min_fidelity =
            StatedFidelity(StatedTable[j].amp_ref, StatedTable[j].amp_coef,
                           StatedGateFactor(p))
       /\ Le(list[j].detuning_min_fidelity, Lit(StatedTable[j].det_ref, 1000))
       /\ Le(list[j].amplitude_min_fidelity, Lit(StatedTable[j].amp_ref, 1000))

\* both calls of estimateRobustness have returned, for positive gate times
BothRobustness ==
  /\ fn = "estimateRobustness"
  /\ Returned(1) /\ Returned(2)
  /\ Positive(args[1].gate_time_ns) /\ Positive(args[2].gate_time_ns)

StatedFlags ==
  << [detuning_robust |-> FALSE, amplitude_robust |-> FALSE],
     [detuning_robust |-> TRUE, amplitude_robust |-> TRUE],
     [detuning_robust |-> FALSE, amplitude_robust |-> TRUE] >>

\* C14: for every gate time and whatever the other parameters, the flags are
\* Gaussian (false, false), DRAG (true, true), GRAPE (false, true), whatever
\* the fidelities beside them.
C14_StaticFlags ==
  fn = "estimateRobustness" =>
    \A i \in {1, 2} :
      Returned(i) =>
        \A j \in 1..3 :
          /\ ret[i].list[j].detuning_robust = StatedFlags[j].detuning_robust
          /\ ret[i].list[j].amplitude_robust = StatedFlags[j].amplitude_robust

\* two results with different DRAG fidelities and the same flags
C14_Witness ==
  /\ BothRobustness
  /\ ret[1].list[2].detuning_min_fidelity # ret[2].list[2].detuning_min_fidelity
  /\ ret[1].list[2].detuning_robust /\ ret[2].list[2].detuning_robust
  /\ ~ret[1].list[3].detuning_robust /\ ret[2].list[3].amplitude_robust

\* the robustness threshold of both channels, and the distance from it that
\* the rounding of doubles cannot bridge
RobustThreshold == Rat(98, 100)
RoundingMargin == Rat(1, 100000)

\* gate times whose exact value fits the integers of the model
ExactGate(x) == IsFinite(x) /\ x.m > 0 /\ x.e >= 0 - (Prec + 1) /\ x.e <= 11 - Prec

\* flag is true exactly when fidelity >= 0.98, the fidelity being clear of the
\* threshold by the margin
AgreesWithThreshold(flag, fidelity) ==
  IF flag THEN RatLe(RatAdd(RobustThreshold, RoundingMargin), fidelity)
  ELSE RatLt(fidelity, RatSub(RobustThreshold, RoundingMargin))

\* C15: for every positive gate time and every method, detuning_robust is true
\* exactly when detuning_min_fidelity >= 0.98 and amplitude_robust is true
\* exactly when amplitude_min_fidelity >= 0.98 (the fidelities taken exactly;
\* each lies further from 0.98 than the rounding of doubles reaches).
C15_FlagsAgreeWithThreshold ==
  fn = "estimateRobustness" =>
    \A i \in {1, 2} :
      (Returned(i) /\ ExactGate(args[i].gate_time_ns)) =>
        \A j \in 1..3 :
          /\ AgreesWithThreshold(
               ret[i].list[j].detuning_robust,
               estimateRobustnessExact(ToRat(args[i].gate_time_ns))[j].detuning_min_fidelity)
          /\ AgreesWithThreshold(
               ret[i].list[j].amplitude_robust,
               estimateRobustnessExact(ToRat(args[i].gate_time_ns))[j].amplitude_min_fidelity)

\* the result for 20 ns, where the DRAG fidelities are lowest: 0.9801 exactly,
\* with both DRAG flags true
C15_Witness ==
  /\ fn = "estimateRobustness"
  /\ Returned(1)
  /\ args[1].gate_time_ns = N20
  /\ ret[1].list[2].detuning_robust /\ ret[1].list[2].amplitude_robust
  /\ estimateRobustnessExact(ToRat(args[1].gate_time_ns))[2].detuning_min_fidelity
       = Rat(9801, 10000)

---------------------------------------------------------------------------
\* Properties of PulseLabAgent (checked under SpecAgent)

\* the name and parameters of each configuration of a list
NamedParams(list) ==
  [i \in 1..Len(list) |-> [name |-> list[i].name, params |-> list[i].params]]

\* no call of handleChat stands at an await
NoTurnInFlight == \A t \in 1..MaxTurns : turns[t].pc \notin {"llm1", "llm2"}

\* C16 as stated: after every completed chat turn the in-memory configs list
\* and the persisted configs rows hold the same configurations, so that a
\* reconnect, which reloads the list from the rows, loses none that was saved.
C16_Original_SavedConfigsPersist ==
  (connected /\ NoTurnInFlight) =>
    NamedParams(configs) = NamedParams(loadConfigs(sqlConfigs))

UserMessage(t) == ChatMessage("user", Text("user", t), <<>>, "", "")
InMessages(m) == \E i \in 1..Len(messages) : messages[i] = m
\* the response sent for turn t
ResponseOf(t) ==
  (CHOOSE i \in 1..Len(sent) : sent[i].type = "response" /\ sent[i].turn = t)
\* a clear was handled after turn t stored its messages
ClearedAfter(t) ==
  \E i, j \in 1..Len(sent) :
    /\ i < j
    /\ sent[i].type = "response" /\ sent[i].turn = t
    /\ sent[j].type = "cleared"

\* C18 as stated: when two chat turns with interleaved LLM awaits have both
\* completed (and no clear was handled), the stored messages contain both user
\* messages and both assistant replies; and what a clear removed is not
\* brought back by a turn that was in flight and stores its messages later.
C18_Original_NoLostHistory ==
  /\ ((\A t \in 1..2 : turns[t].pc = "responded") /\ CountSent("cleared", 0) = 0) =>
       \A t \in 1..2 :
         /\ InMessages(UserMessage(t))
         /\ InMessages(ChatMessage("assistant", sent[ResponseOf(t)].content, <<>>, "", ""))
  /\ \A t \in 1..MaxTurns : ClearedAfter(t) => ~InMessages(UserMessage(t))

\* the step sends "cleared"
SendsCleared ==
  /\ Len(sent') = Len(sent) + 1
  /\ sent'[Len(sent')].type = "cleared"

\* C19: the step of onMessage that answers {type: "clear"} with "cleared"
\* leaves messages empty, leaves configs and the rows of the table as they
\* were, and sends nothing but the one "cleared" reply.
C19_ClearKeepsConfigs ==
  [][SendsCleared =>
       /\ messages' = <<>>
       /\ configs' = configs
       /\ sqlConfigs' = sqlConfigs
       /\ sent' = Append(sent, Sent("cleared", 0, Text("cleared", 0)))]_vars

\* a clear has just been answered: the history is empty, a saved configuration
\* and its row are still there
C19_Witness ==
  /\ sent # <<>>
  /\ sent[Len(sent)].type = "cleared"
  /\ messages = <<>>
  /\ configs # <<>>
  /\ sqlConfigs # <<>>
  /\ \E t \in 1..MaxTurns : turns[t].pc = "responded"

\* the messages turn t added to the history it started from
AddedBy(t) == SubSeq(turns[t].local, turns[t].base + 1, Len(turns[t].local))

\* the messages of turn t are in protocol order: user, then either one
\* assistant message, or the assistant message carrying the tool calls, one tool
\* message per call in the order of the calls with that call's id, and one
\* final assistant message
ProtocolOrder(t) ==
  /\ AddedBy(t)[1] = UserMessage(t)
  /\ IF turns[t].toolCalls = <<>>
     THEN /\ Len(AddedBy(t)) = 2
          /\ AddedBy(t)[2].role = "assistant"
          /\ AddedBy(t)[2].tool_calls = <<>>
     ELSE /\ Len(AddedBy(t)) = Len(turns[t].toolCalls) + 3
          /\ AddedBy(t)[2].role = "assistant"
          /\ AddedBy(t)[2].tool_calls = turns[t].toolCalls
          /\ \A k \in 1..Len(turns[t].toolCalls) :
               /\ AddedBy(t)[2 + k].role = "tool"
               /\ AddedBy(t)[2 + k].tool_call_id = turns[t].toolCalls[k].id
               /\ AddedBy(t)[2 + k].name = turns[t].toolCalls[k].name
          /\ AddedBy(t)[Len(AddedBy(t))].role = "assistant"
          /\ AddedBy(t)[Len(AddedBy(t))].tool_calls = <<>>

\* the stored history is that of turn t, in protocol order
StoredInOrder(t) == messages = turns[t].local /\ ProtocolOrder(t)

\* the first LLM response of turn t has arrived and the turn ends in this step
EndsAfterFirstResponse(t) ==
  /\ turns[t].pc \in {"llm1", "llm2"}
  /\ \/ turns'[t].pc = "responded"
     \/ turns'[t].pc = "failed" /\ turns'[t].toolCalls # <<>>

\* C20 as stated: when the first LLM response of a chat turn carries tool
\* calls, the history stored for the turn is the user message, the assistant
\* message carrying the calls, one tool message per call in the order of the
\* calls with that call's id, and one final assistant message; when it carries
\* none, the user message and one assistant message.
C20_Original_ProtocolOrder ==
  [][\A t \in 1..MaxTurns : EndsAfterFirstResponse(t) => StoredInOrder(t)']_vars

\* C20 amended: when a chat turn ends with a response, the history stored for
\* it is in protocol order (also with an unknown tool name or unparsable
\* arguments); a turn that ends with an error, because a tool call or an LLM
\* call threw, stores nothing.
C20_ProtocolOrderOfResponse ==
  [][\A t \in 1..MaxTurns :
       /\ (turns[t].pc \in {"llm1", "llm2"} /\ turns'[t].pc = "responded")
            => StoredInOrder(t)'
       /\ (turns[t].pc \in {"llm1", "llm2"} /\ turns'[t].pc = "failed")
            => messages' = messages]_vars

\* a turn whose tool calls were an unknown tool with unparsable arguments and
\* a compute_error_budget has stored its five messages
C20_Witness ==
  \E t \in 1..MaxTurns :
    /\ turns[t].pc = "responded"
    /\ Len(turns[t].toolCalls) = 2
    /\ turns[t].toolCalls[1].name = "no_such_tool"
    /\ turns[t].toolCalls[1].arguments.kind = "unparsable"
    /\ messages = turns[t].local
    /\ Len(AddedBy(t)) = 5
    /\ AddedBy(t)[3].content.kind = "unknown_tool"
    /\ AddedBy(t)[3].tool_call_id = "c1"
    /\ AddedBy(t)[4].content.kind = "error_budget"


---------------------------------------------------------------------------
\* C17: engine results are fresh value objects. A call leaves the caller's
\* objects as they were, and a returned result reads the same whatever is
\* done afterwards to the caller's input object or to another call's result:
\* every result still reads as it did when its call returned.
C17_Original_FreshValueObjects == \A i \in {1, 2} :
  (ret[i] # None /\ ret[i].kind = "budget") => readBudget(ret[i]) = ret[i].atReturn


---------------------------------------------------------------------------
Started(t) == turns[t].pc # "idle"

TerminalReplies(t) == CountSent("response", t) + CountSent("error", t)

\* the "thinking" of turn t is sent before its reply
ThinkingFirst(t) ==
  \A i, j \in 1..Len(sent) :
    (sent[i].turn = t /\ sent[i].type = "thinking"
     /\ sent[j].turn = t /\ sent[j].type \in {"response", "error"}) => i < j

\* what has been sent for the chat message of turn t, at any moment
RepliesSoFar(t) ==
  /\ CountSent("thinking", t) = (IF Started(t) THEN 1 ELSE 0)
  /\ TerminalReplies(t) <= 1
  /\ CountSent("response", t) = (IF turns[t].pc = "responded" THEN 1 ELSE 0)
  /\ CountSent("error", t) = (IF turns[t].pc = "failed" THEN 1 ELSE 0)
  /\ ThinkingFirst(t)

\* a step of turn t that does not end it with a "response", the step that
\* sends its "error" included, leaves the stored chat history as it was
ErrorStoresNothing(t) ==
  (turns'[t] # turns[t] /\ turns'[t].pc # "responded") => messages' = messages

\* C21: every chat message gets exactly one terminal reply. For each chat
\* message, provided each LLM call eventually returns or throws, the agent
\* sends one "thinking" and afterwards, eventually, exactly one "response" or
\* "error", never both and never neither; a turn that is answered with an
\* "error" has stored nothing: none of its steps changes the stored history.
C21_OneTerminalReply ==
  /\ [](\A t \in 1..MaxTurns : RepliesSoFar(t))
  /\ \A t \in 1..MaxTurns : Started(t) ~> (TerminalReplies(t) = 1)
  /\ [][\A t \in 1..MaxTurns : ErrorStoresNothing(t)]_vars

\* both turns were answered, the first with an "error" after its tool loop
\* had saved a configuration, the second with a "response"
C21_Witness ==
  /\ turns[1].pc = "failed"
  /\ turns[1].toolCalls # <<>>
  /\ configs # <<>>
  /\ turns[2].pc = "responded"
  /\ CountSent("thinking", 1) = 1
  /\ CountSent("error", 1) = 1
  /\ CountSent("response", 1) = 0
  /\ CountSent("response", 2) = 1
  /\ messages = turns[2].local

====
